---- MODULE Spec2Model ----
(***************************************************************************)
(* A model of the s3-proxy gateway: the admission pipeline of              *)
(* auth_middleware (validation, API-key lookup, sliding-window rate        *)
(* limiter), the handlers of server.rs (bucket visibility, write           *)
(* permission, account resolution, backend call) and the mapping of        *)
(* AppError to HTTP responses.                                             *)
(*                                                                         *)
(* Time is counted in whole seconds.  Strings that the code only compares  *)
(* (bucket names, API keys, user names) are TLA+ strings; a request path   *)
(* is a sequence of tokens, each the separator "/" or a separator-free     *)
(* name.                                                                   *)
(***************************************************************************)
EXTENDS Integers, Sequences, FiniteSets, TLC

VARIABLES
    config,     \* AppState.config: the loaded Config (immutable after start)
    clients,    \* AppState.clients: the account ids that have an S3 client
    store,      \* the storage backend: per bucket, the pages of its listing
    now,        \* the monotonic clock read by Instant::now(), in seconds
    requests,   \* RateLimiter.requests: username -> Vec<Instant>
    lock,       \* holder of the RATE_LIMITER write lock, or NoHolder
    pc,         \* per request: where its task stands
    req,        \* per request: the inbound HTTP request
    local,      \* per request: the task's local variables
    resp,       \* per request: the response sent to the caller
    backend,    \* the calls made to the storage backend, in order
    stages,     \* per request: the pipeline states it has passed (history)
    calls       \* every finished is_rate_limited call, in order (history)

vars == <<config, clients, store, now, requests, lock, pc, req, local, resp, backend, stages, calls>>

----------------------------------------------------------------------------
(* Bounds of the model *)

\* A listing has at most this many pages.
MaxPages == 3

\* A page of a listing holds at most this many objects.
MaxPageSize == 2

\* SpecLimiter stops calling the limiter after this many calls.
MaxCalls == 102

\* SpecTenants stops calling the limiter after this many calls.
MaxTenantCalls == 4

----------------------------------------------------------------------------
(* Program constants *)

\* auth.rs:38  Duration::from_secs(60)
window == 60

\* auth.rs:39
max_requests == 100

\* config.rs:19
default_max_file_size == 104857600

\* The instants the clock takes in the model: entries of age 1, window - 1
\* and window occur.
Instants == {0, 1, window}

\* The instants the clock takes while the full range of requests is served.
PipelineInstants == {0, window}

----------------------------------------------------------------------------
(* Vec helpers *)

Contains(vec, x) == \E i \in 1..Len(vec) : vec[i] = x

Range(vec) == {vec[i] : i \in 1..Len(vec)}

----------------------------------------------------------------------------
(* config.rs *)

Roles == {"Admin", "User", "Readonly"}

\* The configuration the gateway runs with in Spec: three users, one per
\* role, and two accounts; bucket b3 is owned by no account.
DefaultConfig ==
    [ users |->
        [ alice |-> [api_key |-> "ka", role |-> "Admin",    allowed_buckets |-> <<"*">>],
          bob   |-> [api_key |-> "kb", role |-> "User",     allowed_buckets |-> <<"b1">>],
          carol |-> [api_key |-> "kc", role |-> "Readonly", allowed_buckets |-> <<"b1", "b3">>] ],
      user_order    |-> <<"alice", "bob", "carol">>,
      accounts |->
        [ acct1 |-> [buckets |-> <<"b1">>],
          acct2 |-> [buckets |-> <<"b2">>] ],
      account_order |-> <<"acct1", "acct2">>,
      max_file_size |-> default_max_file_size ]

\* Iterator::find over a HashMap: the first entry, in the map's iteration
\* order, that satisfies the predicate.  order is that iteration order.
RECURSIVE FindFirst(_, _)
FindFirst(order, matching) ==
    IF order = <<>> THEN "none"
    ELSE IF Head(order) \in matching THEN Head(order)
    ELSE FindFirst(Tail(order), matching)

\* A lookup that falls back to the first account when none claims the bucket.
find_account_for_bucket_or_first(cfg, bucket) ==
    IF \E a \in DOMAIN cfg.accounts : Contains(cfg.accounts[a].buckets, bucket)
    THEN FindFirst(cfg.account_order,
                   {a \in DOMAIN cfg.accounts : Contains(cfg.accounts[a].buckets, bucket)})
    ELSE Head(cfg.account_order)

\* Config::find_account_for_bucket; "none" is Option::None.
find_account_for_bucket(cfg, bucket) ==
    FindFirst(cfg.account_order,
              {a \in DOMAIN cfg.accounts : Contains(cfg.accounts[a].buckets, bucket)})

\* Config::find_user_by_api_key; "none" is Option::None.
find_user_by_api_key(cfg, api_key) ==
    FindFirst(cfg.user_order,
              {u \in DOMAIN cfg.users : cfg.users[u].api_key = api_key})

\* A visibility test that knows no wildcard.
is_bucket_allowed_exact(cfg, username, bucket) ==
    IF username \in DOMAIN cfg.users
    THEN Contains(cfg.users[username].allowed_buckets, bucket)
    ELSE FALSE

\* Config::is_bucket_allowed
is_bucket_allowed(cfg, username, bucket) ==
    IF username \in DOMAIN cfg.users
    THEN Contains(cfg.users[username].allowed_buckets, "*")
         \/ Contains(cfg.users[username].allowed_buckets, bucket)
    ELSE FALSE

\* A write test that lets every configured user write.
can_write_any_role(cfg, username) == username \in DOMAIN cfg.users

\* Config::can_write
can_write(cfg, username) ==
    IF username \in DOMAIN cfg.users
    THEN cfg.users[username].role \in {"Admin", "User"}
    ELSE FALSE

----------------------------------------------------------------------------
(* auth.rs: RateLimiter *)

\* Instant::duration_since saturates at zero.
duration_since(t, earlier) == IF t >= earlier THEN t - earlier ELSE 0

\* A purge that keeps the entries that are exactly window seconds old.
RetainThroughWindow(vec, t) ==
    SelectSeq(vec, LAMBDA time : duration_since(t, time) <= window)

\* requests.retain(|&time| now.duration_since(time) < window)
Retain(vec, t) == SelectSeq(vec, LAMBDA time : duration_since(t, time) < window)

\* self.requests.entry(username).or_default()
EntryOrDefault(table, username) ==
    IF username \in DOMAIN table THEN table[username] ELSE <<>>

Insert(table, username, vec) ==
    [u \in DOMAIN table \cup {username} |-> IF u = username THEN vec ELSE table[u]]

\* A limit test that lets one request too many through.
OverLimitOffByOne(vec) == Len(vec) > max_requests

\* auth.rs:47  the limit test on the purged vector
OverLimit(vec) == Len(vec) >= max_requests

\* An is_rate_limited that keeps one vector for all users.
is_rate_limited_shared(table, username, t) ==
    LET kept == Retain(EntryOrDefault(table, "shared"), t)
    IN  IF OverLimit(kept)
        THEN [limited |-> TRUE,  table |-> Insert(table, "shared", kept)]
        ELSE [limited |-> FALSE, table |-> Insert(table, "shared", Append(kept, t))]

\* An is_rate_limited that pushes the timestamp before it tests the limit,
\* and so records the attempts it refuses.
is_rate_limited_recording(table, username, t) ==
    LET kept == Retain(EntryOrDefault(table, username), t)
    IN  [limited |-> OverLimit(kept),
         table |-> Insert(table, username, Append(kept, t))]

\* RateLimiter::is_rate_limited as one call at clock value t: the table it
\* leaves and the boolean it returns.
is_rate_limited(table, username, t) ==
    LET kept == Retain(EntryOrDefault(table, username), t)
    IN  IF OverLimit(kept)
        THEN [limited |-> TRUE,  table |-> Insert(table, username, kept)]
        ELSE [limited |-> FALSE, table |-> Insert(table, username, Append(kept, t))]

----------------------------------------------------------------------------
(* HTTP requests *)

\* A header of the request: absent, bytes that HeaderValue::to_str rejects
\* ("opaque"), a text that is no decimal number, a decimal number that fits
\* u64, or a decimal number of 2^64 or more ("huge").
HeaderAbsent == [kind |-> "absent", text |-> "", n |-> 0]
HeaderOpaque == [kind |-> "opaque", text |-> "", n |-> 0]
HeaderText(s) == [kind |-> "text", text |-> s, n |-> 0]
HeaderNumber(k) == [kind |-> "number", text |-> "", n |-> k]
HeaderHuge == [kind |-> "huge", text |-> "18446744073709551616", n |-> 0]

\* headers().get(name): Some unless the header is absent
HeaderPresent(h) == h.kind # "absent"

\* HeaderValue::to_str is Ok
ToStrOk(h) == h.kind \in {"text", "number", "huge"}

\* str::parse::<u64> is Ok: a decimal number below 2^64
ParseU64Ok(h) == h.kind = "number"

\* str::strip_prefix('/') is Some
HasPrefix(path) == path # <<>> /\ Head(path) = "/"

\* str::split('/'): the parts between the separators; a path with no
\* separator, the empty one included, is one part.
RECURSIVE Split(_)
Split(path) ==
    IF ~ Contains(path, "/") THEN <<path>>
    ELSE LET i == CHOOSE j \in 1..Len(path) :
                      path[j] = "/" /\ \A k \in 1..(j - 1) : path[k] # "/"
         IN  <<SubSeq(path, 1, i - 1)>> \o Split(SubSeq(path, i + 1, Len(path)))

----------------------------------------------------------------------------
(* error.rs *)

\* An AppError value: its variant and the parts of its message.
Err(kind, msg) == [kind |-> kind, msg |-> msg]

NoError == Err("none", <<>>)

\* The variants enum AppError declares (error.rs:14-41).
AppErrorVariants ==
    {"S3Error", "ListObjectsError", "GetObjectError", "PutObjectError",
     "BucketNotFound", "ObjectNotFound", "ConfigError", "InternalError"}

\* The status of a response that no arm of into_response produced.
NoStatus == 0

\* The (status, error_message) match of AppError::into_response.  A variant
\* the enum does not declare has no arm: no status is set for it.
StatusOf(kind) ==
    CASE kind \notin AppErrorVariants -> NoStatus
      [] kind \in {"BucketNotFound", "ObjectNotFound"} -> 404
      [] kind \in {"S3Error", "ListObjectsError", "GetObjectError",
                   "PutObjectError", "ConfigError", "InternalError"} -> 500

ErrorMessage(err) ==
    CASE err.kind = "BucketNotFound"   -> <<"Bucket not found: ">> \o err.msg
      [] err.kind = "ObjectNotFound"   -> <<"Object not found: ">> \o err.msg
      [] err.kind = "S3Error"          -> <<"S3 error: ">> \o err.msg
      [] err.kind = "ListObjectsError" -> <<"S3 ListObjects error: ">> \o err.msg
      [] err.kind = "GetObjectError"   -> <<"S3 GetObject error: ">> \o err.msg
      [] err.kind = "PutObjectError"   -> <<"S3 PutObject error: ">> \o err.msg
      [] err.kind = "ConfigError"      -> <<"Configuration error: ">> \o err.msg
      [] OTHER -> err.msg

\* A response: status, the error that produced it (NoError on success), the
\* message of the JSON error body, what the body holds, the header names.
Response(status, err, body, headers) ==
    [status |-> status, err |-> err,
     message |-> IF err = NoError THEN <<>> ELSE ErrorMessage(err),
     body |-> body, headers |-> headers]

NoResponse == Response(NoStatus, NoError, "none", {})

\* AppError::into_response
into_response(err) ==
    Response(StatusOf(err.kind), err, "json_error", {"content-type"})

----------------------------------------------------------------------------
(* auth.rs: validate_request *)

\* A content-length check that also refuses a payload of exactly the maximum.
SizeExceededAtLimit(cfg, request) ==
    /\ request.method = "PUT"
    /\ HeaderPresent(request.content_length)
    /\ ToStrOk(request.content_length)
    /\ ParseU64Ok(request.content_length)
    /\ request.content_length.n >= cfg.max_file_size

\* auth.rs:63-76  the content-length check of a PUT
SizeExceeded(cfg, request) ==
    /\ request.method = "PUT"
    /\ HeaderPresent(request.content_length)
    /\ ToStrOk(request.content_length)
    /\ ParseU64Ok(request.content_length)
    /\ request.content_length.n > cfg.max_file_size

\* auth.rs:79-84  the path check
BadPathFormat(request) ==
    /\ HasPrefix(request.path)
    /\ LET parts == Split(Tail(request.path))
       IN  parts = <<>> \/ Len(parts) > 2

\* validate_request: NoError is Ok(())
validate_request(cfg, request) ==
    IF SizeExceeded(cfg, request)
    THEN Err("InvalidRequest",
             <<"File size ", ToString(request.content_length.n),
               " exceeds maximum allowed size of ", ToString(cfg.max_file_size),
               " bytes">>)
    ELSE IF BadPathFormat(request)
    THEN Err("InvalidRequest", <<"Invalid path format">>)
    ELSE NoError

\* auth.rs:141-150
check_bucket_access(cfg, username, bucket) ==
    IF ~ is_bucket_allowed(cfg, username, bucket)
    THEN Err("Unauthorized", <<"Not allowed to access bucket: ", bucket>>)
    ELSE NoError

\* auth.rs:152-158
check_write_permission(cfg, username) ==
    IF ~ can_write(cfg, username)
    THEN Err("Unauthorized", <<"Write permission denied">>)
    ELSE NoError

\* auth.rs:98-105  the x-api-key header as a string
ApiKeyError(request) ==
    IF HeaderPresent(request.api_key) /\ ToStrOk(request.api_key)
    THEN NoError
    ELSE Err("Unauthorized", <<"No API key provided">>)

\* The string of a header that to_str accepted.
HeaderString(h) == IF h.kind = "number" THEN ToString(h.n) ELSE h.text

\* auth.rs:131-135
SecurityHeaders ==
    {"X-Content-Type-Options", "X-Frame-Options", "X-XSS-Protection",
     "Strict-Transport-Security"}

----------------------------------------------------------------------------
(* server.rs *)

\* The methods a route registered with get(...) serves: GET, and HEAD,
\* which runs the same handler.
GetMethods == {"GET", "HEAD"}

\* create_router: the route a request is dispatched to.  "/:bucket/*key"
\* takes a bucket segment and a non-empty rest, "/:bucket" one segment;
\* each route serves the methods registered for it.
RouteOf(request) ==
    LET p == request.path
    IN  IF Len(p) >= 4 /\ p[1] = "/" /\ p[2] # "/" /\ p[3] = "/"
        THEN CASE request.method \in GetMethods -> "get_object"
               [] request.method = "PUT" -> "put_object"
               [] OTHER -> "method_not_allowed"
        ELSE IF Len(p) = 2 /\ p[1] = "/" /\ p[2] # "/"
        THEN CASE request.method \in GetMethods -> "list_objects"
               [] OTHER -> "method_not_allowed"
        ELSE "not_found"

\* The response as it leaves the server: the answer to a HEAD request goes
\* out without its body.
Sent(request, response) ==
    IF request.method = "HEAD" THEN [response EXCEPT !.body = "empty"] ELSE response

\* server.rs:81  body: Bytes is read under the body limit of the framework,
\* 2 MB, since create_router sets no other.
default_body_limit == 2097152

\* The Bytes extractor of put_object refuses the body.
BodyTooLarge(request) == request.body > default_body_limit

\* The answer of the extractor: 413 Payload Too Large, a text.
PayloadTooLarge == Response(413, NoError, "text", {"content-type"})

\* Path((bucket, key)) / Path(bucket)
PathBucket(request) == request.path[2]
PathKey(request) == SubSeq(request.path, 4, Len(request.path))

\* AppState::get_account_and_client: the error, or NoError
get_account_and_client(cfg, cl, bucket) ==
    IF find_account_for_bucket(cfg, bucket) = "none"
    THEN Err("BucketNotFound", <<bucket>>)
    ELSE IF find_account_for_bucket(cfg, bucket) \notin cl
    THEN Err("InternalError", <<"S3 client not found">>)
    ELSE NoError

----------------------------------------------------------------------------
(* s3.rs: the listing of a bucket as the backend pages it *)

Buckets == {"b1", "b2", "b3"}

\* continuation_token = None (s3.rs:49); the token i > 0 asks for page i.
NoToken == 0

\* A ListObjectsV2 response: contents is Some(items) or None, and
\* next_continuation_token is the token of the next page or None.
Page(some, items, next) == [some |-> some, items |-> items, next |-> next]

\* A bucket that answers a listing with one page without contents.
EmptyListing == <<Page(FALSE, <<>>, NoToken)>>

DefaultStore == [b \in Buckets |-> EmptyListing]

----------------------------------------------------------------------------
(* The requests the model sends *)

Reqs == {"r1", "r2"}

NoHolder == "none"

Methods == {"GET", "HEAD", "PUT"}

Paths ==
    { <<"/", "b1">>,
      <<"/", "b1", "/", "k1">>,
      <<"/", "b2", "/", "k1">>,
      <<"/", "b3", "/", "k1">>,
      <<"/", "b1", "/", "k1", "/", "k2">> }

ApiKeys ==
    { HeaderAbsent, HeaderOpaque, HeaderText("kx"),
      HeaderText("ka"), HeaderText("kb"), HeaderText("kc") }

ContentLengths ==
    { HeaderAbsent, HeaderNumber(default_body_limit + 1),
      HeaderNumber(default_max_file_size + 1) }

\* server.rs:135  params.get("prefix"): the prefix parameter of the query
\* string, None or Some(text)
NoQueryPrefix == [some |-> FALSE, text |-> ""]
QueryPrefix(text) == [some |-> TRUE, text |-> text]

\* The bodies a request with content-length header h may carry: as many
\* bytes as the header declares, or, sent in chunks without the header, one
\* of the given lengths.
BodyLengths(h, chunked) == IF h.kind = "number" THEN {h.n} ELSE chunked

\* The requests with the given heads, each with its bodies.
WithBody(heads, chunked) ==
    UNION { { [method |-> h.method, path |-> h.path, api_key |-> h.api_key,
               content_length |-> h.content_length, prefix |-> h.prefix,
               body |-> b] :
              b \in BodyLengths(h.content_length, chunked) } : h \in heads }

\* The requests of Spec: a put declares any of the content lengths, a get
\* or head none.
Inputs ==
    WithBody({h \in [method : Methods, path : Paths, api_key : ApiKeys,
                     content_length : ContentLengths, prefix : {NoQueryPrefix}] :
                h.method # "PUT" => h.content_length = HeaderAbsent}, {0})

\* The second request is a get of one object, with the key of a configured
\* user or with none, sent while the first one, which ranges over all of
\* Inputs, is under way.
PeerInputs ==
    [method : {"GET"}, path : {<<"/", "b1", "/", "k1">>},
     api_key : {HeaderAbsent, HeaderText("ka"), HeaderText("kb"), HeaderText("kc")},
     content_length : {HeaderAbsent}, prefix : {NoQueryPrefix}, body : {0}]

InputsOf(r) == IF r = "r1" THEN Inputs ELSE PeerInputs

NoRequest ==
    [method |-> "", path |-> <<>>, api_key |-> HeaderAbsent,
     content_length |-> HeaderAbsent, prefix |-> NoQueryPrefix, body |-> 0]

NoLocal ==
    [username |-> "", t |-> 0, handler |-> "", bucket |-> "", key |-> <<>>,
     account |-> "", objects |-> <<>>, continuation_token |-> NoToken]

\* What the storage backend may answer to an operation, and how the
\* reading of an object's body may end.
BackendOutcomes(handler) ==
    CASE handler = "get_object"   -> {"ok", "no_such_key", "fault"}
      [] handler = "put_object"   -> {"ok", "fault"}
      [] handler = "list_objects" -> {"ok", "fault"}

BodyOutcomes == {"ok", "body_fault"}

\* The limiter's table and call history after a burst of n <= max_requests
\* calls of one user at instant 0, made on the empty table: every call is
\* admitted and pushes the instant 0.
BurstTable(username, n) ==
    IF n = 0 THEN <<>> ELSE Insert(<<>>, username, [i \in 1..n |-> 0])

BurstCalls(username, n) ==
    [i \in 1..n |-> [req |-> "burst", user |-> username, t |-> 0, limited |-> FALSE]]

\* The bursts that may have preceded the requests of Spec.
Bursts == {0, max_requests - 1}

----------------------------------------------------------------------------
(* The gateway: one task per request *)

\* The pipeline states of spec section 4.6, in their order.
StageOrder ==
    <<"Validated", "Identified", "RateChecked", "Authorized", "Routed",
      "Dispatched", "Responded">>


Init ==
    /\ config = DefaultConfig
    /\ clients = DOMAIN DefaultConfig.accounts
    /\ store = DefaultStore
    /\ now = 0
    /\ \E n \in Bursts :
          /\ requests = BurstTable("alice", n)
          /\ calls = BurstCalls("alice", n)
    /\ lock = NoHolder
    /\ pc = [r \in Reqs |-> "idle"]
    /\ req = [r \in Reqs |-> NoRequest]
    /\ local = [r \in Reqs |-> NoLocal]
    /\ resp = [r \in Reqs |-> NoResponse]
    /\ backend = <<>>
    /\ stages = [r \in Reqs |-> <<>>]

\* The clock advances to a later one of the given instants.
Advance(instants) ==
    /\ \E t \in instants : t > now /\ now' = t
    /\ UNCHANGED <<config, clients, store, requests, lock, pc, req, local, resp,
                   backend, stages, calls>>

Tick == Advance(Instants)

TickPipeline == Advance(PipelineInstants)

\* A request, one of inputs, arrives and its task starts in auth_middleware.
ReceiveFrom(r, inputs) ==
    /\ pc[r] = "idle"
    /\ \E input \in inputs : req' = [req EXCEPT ![r] = input]
    /\ pc' = [pc EXCEPT ![r] = "validate"]
    /\ UNCHANGED <<config, clients, store, now, requests, lock, local, resp,
                   backend, stages, calls>>

Receive(r) == ReceiveFrom(r, InputsOf(r))

ReceivePeer(r) == ReceiveFrom(r, PeerInputs)

\* auth.rs:95  validate_request(&config, &request)?
Validate(r) ==
    /\ pc[r] = "validate"
    /\ LET e == validate_request(config, req[r])
       IN  IF e # NoError
           THEN /\ resp' = [resp EXCEPT ![r] = Sent(req[r], into_response(e))]
                /\ pc' = [pc EXCEPT ![r] = "done"]
                /\ UNCHANGED stages
           ELSE /\ pc' = [pc EXCEPT ![r] = "identify"]
                /\ stages' = [stages EXCEPT ![r] = Append(@, "Validated")]
                /\ UNCHANGED resp
    /\ UNCHANGED <<config, clients, store, now, requests, lock, req, local, backend, calls>>

\* An Identify that counts the requests with an unknown key in the
\* limiter's table.
IdentifyCountingFailures(r) ==
    /\ pc[r] = "identify"
    /\ LET e == ApiKeyError(req[r])
           u == find_user_by_api_key(config, HeaderString(req[r].api_key))
       IN  IF e # NoError
           THEN /\ resp' = [resp EXCEPT ![r] = Sent(req[r], into_response(e))]
                /\ pc' = [pc EXCEPT ![r] = "done"]
                /\ UNCHANGED <<local, stages, requests>>
           ELSE IF u = "none"
           THEN /\ resp' = [resp EXCEPT ![r] =
                              Sent(req[r], into_response(Err("Unauthorized",
                                                            <<"Invalid API key">>)))]
                /\ pc' = [pc EXCEPT ![r] = "done"]
                /\ requests' = Insert(requests, "unknown",
                                      Append(EntryOrDefault(requests, "unknown"), now))
                /\ UNCHANGED <<local, stages>>
           ELSE /\ local' = [local EXCEPT ![r].username = u]
                /\ pc' = [pc EXCEPT ![r] = "ratelimit"]
                /\ stages' = [stages EXCEPT ![r] = Append(@, "Identified")]
                /\ UNCHANGED <<resp, requests>>
    /\ UNCHANGED <<config, clients, store, now, lock, req, backend, calls>>

\* auth.rs:98-113  the API key and the user it belongs to
Identify(r) ==
    /\ pc[r] = "identify"
    /\ LET e == ApiKeyError(req[r])
           u == find_user_by_api_key(config, HeaderString(req[r].api_key))
       IN  IF e # NoError
           THEN /\ resp' = [resp EXCEPT ![r] = Sent(req[r], into_response(e))]
                /\ pc' = [pc EXCEPT ![r] = "done"]
                /\ UNCHANGED <<local, stages>>
           ELSE IF u = "none"
           THEN /\ resp' = [resp EXCEPT ![r] =
                              Sent(req[r], into_response(Err("Unauthorized",
                                                            <<"Invalid API key">>)))]
                /\ pc' = [pc EXCEPT ![r] = "done"]
                /\ UNCHANGED <<local, stages>>
           ELSE /\ local' = [local EXCEPT ![r].username = u]
                /\ pc' = [pc EXCEPT ![r] = "ratelimit"]
                /\ stages' = [stages EXCEPT ![r] = Append(@, "Identified")]
                /\ UNCHANGED resp
    /\ UNCHANGED <<config, clients, store, now, requests, lock, req, backend, calls>>

\* A limiter entered without waiting for the lock.
LockFreeAlways(holder) == TRUE

\* auth.rs:116  RATE_LIMITER.write().await is granted
LockFree(holder) == holder = NoHolder

AcquireLimiter(r) ==
    /\ pc[r] = "ratelimit"
    /\ LockFree(lock)
    /\ lock' = r
    /\ pc' = [pc EXCEPT ![r] = "purge"]
    /\ UNCHANGED <<config, clients, store, now, requests, req, local, resp, backend,
                   stages, calls>>

\* auth.rs:37-49  is_rate_limited reads the clock, purges the user's vector
\* and tests the limit; over the limit it returns true, the guard is dropped
\* and the middleware answers "Rate limit exceeded".
PurgeAndCheck(r) ==
    /\ pc[r] = "purge"
    /\ LET u == local[r].username
           kept == Retain(EntryOrDefault(requests, u), now)
       IN  /\ requests' = Insert(requests, u, kept)
           /\ IF OverLimit(kept)
              THEN /\ calls' = Append(calls, [req |-> r, user |-> u, t |-> now, limited |-> TRUE])
                   /\ lock' = NoHolder
                   /\ resp' = [resp EXCEPT ![r] =
                                 Sent(req[r], into_response(Err("InvalidRequest",
                                                               <<"Rate limit exceeded">>)))]
                   /\ pc' = [pc EXCEPT ![r] = "done"]
                   /\ UNCHANGED local
              ELSE /\ local' = [local EXCEPT ![r].t = now]
                   /\ pc' = [pc EXCEPT ![r] = "push"]
                   /\ UNCHANGED <<calls, lock, resp>>
    /\ UNCHANGED <<config, clients, store, now, req, backend, stages>>

\* auth.rs:52-53  requests.push(now); false -- and the guard is dropped
Push(r) ==
    /\ pc[r] = "push"
    /\ LET u == local[r].username
       IN  /\ requests' = Insert(requests, u, Append(EntryOrDefault(requests, u), local[r].t))
           /\ calls' = Append(calls, [req |-> r, user |-> u, t |-> local[r].t, limited |-> FALSE])
    /\ lock' = NoHolder
    /\ pc' = [pc EXCEPT ![r] = "route"]
    /\ stages' = [stages EXCEPT ![r] = Append(@, "RateChecked")]
    /\ UNCHANGED <<config, clients, store, now, req, local, resp, backend>>

\* auth.rs:122-128, server.rs:40-43, 76-82  the AuthState extension is set
\* and next.run hands the request to the router, which runs the extractors
\* of the handler; a put whose body is over the body limit ends there.
Route(r) ==
    /\ pc[r] = "route"
    /\ LET h == RouteOf(req[r])
       IN  CASE h = "not_found" ->
                  /\ resp' = [resp EXCEPT ![r] = Response(404, NoError, "empty", {})]
                  /\ pc' = [pc EXCEPT ![r] = "headers"]
                  /\ UNCHANGED local
             [] h = "method_not_allowed" ->
                  /\ resp' = [resp EXCEPT ![r] = Response(405, NoError, "empty", {"allow"})]
                  /\ pc' = [pc EXCEPT ![r] = "headers"]
                  /\ UNCHANGED local
             [] h = "put_object" /\ BodyTooLarge(req[r]) ->
                  /\ resp' = [resp EXCEPT ![r] = PayloadTooLarge]
                  /\ pc' = [pc EXCEPT ![r] = "headers"]
                  /\ UNCHANGED local
             [] OTHER ->
                  /\ local' = [local EXCEPT ![r].handler = h,
                                            ![r].bucket = PathBucket(req[r]),
                                            ![r].key = IF h = "list_objects" THEN <<>>
                                                       ELSE PathKey(req[r])]
                  /\ pc' = [pc EXCEPT ![r] = "authorize"]
                  /\ UNCHANGED resp
    /\ UNCHANGED <<config, clients, store, now, requests, lock, req, backend, stages, calls>>

\* Access checks of a put in the other order: write permission first.
AuthorizeErrorWriteFirst(cfg, handler, username, bucket) ==
    IF handler = "put_object" /\ check_write_permission(cfg, username) # NoError
    THEN check_write_permission(cfg, username)
    ELSE check_bucket_access(cfg, username, bucket)

\* server.rs:62, 86-87, 132  check_bucket_access, and for a put
\* check_write_permission
AuthorizeError(cfg, handler, username, bucket) ==
    IF check_bucket_access(cfg, username, bucket) # NoError
    THEN check_bucket_access(cfg, username, bucket)
    ELSE IF handler = "put_object"
    THEN check_write_permission(cfg, username)
    ELSE NoError

\* Access checks that, when they refuse a request, take its timestamp out
\* of the limiter's table again.
AuthorizeRefunding(r) ==
    /\ pc[r] = "authorize"
    /\ LET e == AuthorizeError(config, local[r].handler, local[r].username, local[r].bucket)
           vec == EntryOrDefault(requests, local[r].username)
       IN  IF e # NoError
           THEN /\ resp' = [resp EXCEPT ![r] = into_response(e)]
                /\ pc' = [pc EXCEPT ![r] = "headers"]
                /\ requests' = Insert(requests, local[r].username,
                                      SubSeq(vec, 1, Len(vec) - 1))
                /\ UNCHANGED stages
           ELSE /\ pc' = [pc EXCEPT ![r] = "resolve"]
                /\ stages' = [stages EXCEPT ![r] = Append(@, "Authorized")]
                /\ UNCHANGED <<resp, requests>>
    /\ UNCHANGED <<config, clients, store, now, lock, req, local, backend, calls>>

\* A handler that drops the result of its access checks and goes on.
AuthorizeUnchecked(r) ==
    /\ pc[r] = "authorize"
    /\ LET e == AuthorizeError(config, local[r].handler, local[r].username, local[r].bucket)
       IN  stages' = [stages EXCEPT ![r] = IF e = NoError THEN Append(@, "Authorized") ELSE @]
    /\ pc' = [pc EXCEPT ![r] = "resolve"]
    /\ UNCHANGED <<config, clients, store, now, requests, lock, req, local, resp, backend, calls>>

\* server.rs:61-62, 85-87, 131-132  the access checks of a handler
Authorize(r) ==
    /\ pc[r] = "authorize"
    /\ LET e == AuthorizeError(config, local[r].handler, local[r].username, local[r].bucket)
       IN  IF e # NoError
           THEN /\ resp' = [resp EXCEPT ![r] = into_response(e)]
                /\ pc' = [pc EXCEPT ![r] = "headers"]
                /\ UNCHANGED stages
           ELSE /\ pc' = [pc EXCEPT ![r] = "resolve"]
                /\ stages' = [stages EXCEPT ![r] = Append(@, "Authorized")]
                /\ UNCHANGED resp
    /\ UNCHANGED <<config, clients, store, now, requests, lock, req, local, backend, calls>>

\* server.rs:64, 89, 134  state.get_account_and_client(&bucket)?
ResolveAccount(r) ==
    /\ pc[r] = "resolve"
    /\ LET e == get_account_and_client(config, clients, local[r].bucket)
       IN  IF e # NoError
           THEN /\ resp' = [resp EXCEPT ![r] = into_response(e)]
                /\ pc' = [pc EXCEPT ![r] = "headers"]
                /\ UNCHANGED <<local, stages>>
           ELSE /\ local' = [local EXCEPT ![r].account =
                                find_account_for_bucket(config, local[r].bucket)]
                /\ pc' = [pc EXCEPT ![r] = "backend"]
                /\ stages' = [stages EXCEPT ![r] = Append(@, "Routed")]
                /\ UNCHANGED resp
    /\ UNCHANGED <<config, clients, store, now, requests, lock, req, backend, calls>>

\* A get_object that has no case for "no such key" and turns it, like every
\* fault, into the backend error.
BackendResponseNoKeyCase(handler, bucket, key, outcome) ==
    CASE outcome = "body_fault" ->
             into_response(Err("InternalError", <<"body error">>))
      [] outcome \in {"fault", "no_such_key"} /\ handler = "get_object" ->
             into_response(Err("GetObjectError", <<"service error">>))
      [] outcome = "fault" /\ handler = "put_object" ->
             into_response(Err("PutObjectError", <<"service error">>))
      [] outcome = "fault" /\ handler = "list_objects" ->
             into_response(Err("ListObjectsError", <<"service error">>))
      [] outcome = "ok" /\ handler = "get_object" ->
             Response(200, NoError, "object", {"content-type"})
      [] outcome = "ok" /\ handler = "put_object" ->
             Response(200, NoError, "empty", {})
      [] outcome = "ok" /\ handler = "list_objects" ->
             Response(200, NoError, "listing", {"content-type"})

\* The response of a handler to the backend's answer
\* (server.rs:65-71, 98-99, 136-153; s3.rs:59, 87-94, 120).
BackendResponse(handler, bucket, key, outcome) ==
    CASE outcome = "no_such_key" ->
             into_response(Err("ObjectNotFound", <<bucket, "/">> \o key))
      [] outcome = "body_fault" ->
             into_response(Err("InternalError", <<"body error">>))
      [] outcome = "fault" /\ handler = "get_object" ->
             into_response(Err("GetObjectError", <<"service error">>))
      [] outcome = "fault" /\ handler = "put_object" ->
             into_response(Err("PutObjectError", <<"service error">>))
      [] outcome = "fault" /\ handler = "list_objects" ->
             into_response(Err("ListObjectsError", <<"service error">>))
      [] outcome = "ok" /\ handler = "get_object" ->
             Response(200, NoError, "object", {"content-type"})
      [] outcome = "ok" /\ handler = "put_object" ->
             Response(200, NoError, "empty", {})
      [] outcome = "ok" /\ handler = "list_objects" ->
             Response(200, NoError, "listing", {"content-type"})

\* The call of task r that the backend received last.
LastCallOf(r) ==
    CHOOSE i \in 1..Len(backend) :
       /\ backend[i].req = r
       /\ \A j \in (i + 1)..Len(backend) : backend[j].req # r

\* server.rs:65, 98, 136; s3.rs:84, 120  the handler sends its call, which
\* the backend receives, and waits for the answer at the await; other tasks
\* run meanwhile.
BackendCall(r) ==
    /\ pc[r] = "backend"
    /\ backend' = Append(backend, [req |-> r, op |-> local[r].handler,
                                   account |-> local[r].account,
                                   bucket |-> local[r].bucket, key |-> local[r].key,
                                   token |-> NoToken,
                                   prefix |-> IF local[r].handler = "list_objects"
                                              THEN req[r].prefix ELSE NoQueryPrefix,
                                   outcome |-> "pending"])
    /\ pc' = [pc EXCEPT ![r] = "answer"]
    /\ stages' = [stages EXCEPT ![r] = Append(@, "Dispatched")]
    /\ UNCHANGED <<config, clients, store, now, requests, lock, req, local, resp, calls>>

\* s3.rs:85-95, 120; server.rs:65, 98-99, 136-153  the answer arrives.  A
\* get that succeeded goes on to read the body; every other answer ends the
\* handler.
BackendAnswer(r) ==
    /\ pc[r] = "answer"
    /\ \E outcome \in BackendOutcomes(local[r].handler) :
          /\ backend' = [backend EXCEPT ![LastCallOf(r)].outcome = outcome]
          /\ IF local[r].handler = "get_object" /\ outcome = "ok"
             THEN /\ pc' = [pc EXCEPT ![r] = "collect"]
                  /\ UNCHANGED resp
             ELSE /\ resp' = [resp EXCEPT ![r] =
                                BackendResponse(local[r].handler, local[r].bucket,
                                                local[r].key, outcome)]
                  /\ pc' = [pc EXCEPT ![r] = "headers"]
    /\ UNCHANGED <<config, clients, store, now, requests, lock, req, local, stages, calls>>

\* server.rs:66-71  body.collect().await: the bytes of the object arrive,
\* or the stream fails.
CollectBody(r) ==
    /\ pc[r] = "collect"
    /\ \E outcome \in BodyOutcomes :
          /\ backend' = IF outcome = "ok" THEN backend
                        ELSE [backend EXCEPT ![LastCallOf(r)].outcome = outcome]
          /\ resp' = [resp EXCEPT ![r] =
                        BackendResponse(local[r].handler, local[r].bucket,
                                        local[r].key, outcome)]
    /\ pc' = [pc EXCEPT ![r] = "headers"]
    /\ UNCHANGED <<config, clients, store, now, requests, lock, req, local, stages, calls>>

\* auth.rs:130-138  the security headers are set on the response of next.run
WithSecurityHeaders(response) ==
    [response EXCEPT !.headers = @ \cup SecurityHeaders]

AddHeaders(r) ==
    /\ pc[r] = "headers"
    /\ resp' = [resp EXCEPT ![r] = Sent(req[r], WithSecurityHeaders(@))]
    /\ pc' = [pc EXCEPT ![r] = "done"]
    /\ stages' = [stages EXCEPT ![r] = Append(@, "Responded")]
    /\ UNCHANGED <<config, clients, store, now, requests, lock, req, local, backend, calls>>

Next ==
    \/ TickPipeline
    \/ \E r \in Reqs : Receive(r)
    \/ \E r \in Reqs : Validate(r)
    \/ \E r \in Reqs : Identify(r)
    \/ \E r \in Reqs : AcquireLimiter(r)
    \/ \E r \in Reqs : PurgeAndCheck(r)
    \/ \E r \in Reqs : Push(r)
    \/ \E r \in Reqs : Route(r)
    \/ \E r \in Reqs : Authorize(r)
    \/ \E r \in Reqs : ResolveAccount(r)
    \/ \E r \in Reqs : BackendCall(r)
    \/ \E r \in Reqs : BackendAnswer(r)
    \/ \E r \in Reqs : CollectBody(r)
    \/ \E r \in Reqs : AddHeaders(r)

Spec == Init /\ [][Next]_vars

\* Two requests for the same object race for the limiter while the clock
\* takes every instant of the model.
NextRace ==
    \/ Tick
    \/ \E r \in Reqs : ReceivePeer(r)
    \/ \E r \in Reqs : Validate(r)
    \/ \E r \in Reqs : Identify(r)
    \/ \E r \in Reqs : AcquireLimiter(r)
    \/ \E r \in Reqs : PurgeAndCheck(r)
    \/ \E r \in Reqs : Push(r)
    \/ \E r \in Reqs : Route(r)
    \/ \E r \in Reqs : Authorize(r)
    \/ \E r \in Reqs : ResolveAccount(r)
    \/ \E r \in Reqs : BackendCall(r)
    \/ \E r \in Reqs : BackendAnswer(r)
    \/ \E r \in Reqs : CollectBody(r)
    \/ \E r \in Reqs : AddHeaders(r)

SpecRace == Init /\ [][NextRace]_vars

----------------------------------------------------------------------------
(* The gateway for a user one request short of the limit: a request of     *)
(* that user for any bucket and operation, and a second one behind it      *)

\* The first request: a get, put or list with the key of a configured user.
SlotInputs ==
    [method : Methods,
     path : { <<"/", "b1">>, <<"/", "b1", "/", "k1">>, <<"/", "b2", "/", "k1">>,
              <<"/", "b3", "/", "k1">> },
     api_key : {HeaderText("ka"), HeaderText("kb"), HeaderText("kc")},
     content_length : {HeaderAbsent}, prefix : {NoQueryPrefix}, body : {0}]

ReceiveSlot(r) == ReceiveFrom(r, IF r = "r1" THEN SlotInputs ELSE PeerInputs)

\* One of the users has made max_requests - 1 admitted calls at instant 0.
InitSlots ==
    /\ config = DefaultConfig
    /\ clients = DOMAIN DefaultConfig.accounts
    /\ store = DefaultStore
    /\ now = 0
    /\ \E u \in DOMAIN DefaultConfig.users :
          /\ requests = BurstTable(u, max_requests - 1)
          /\ calls = BurstCalls(u, max_requests - 1)
    /\ lock = NoHolder
    /\ pc = [r \in Reqs |-> "idle"]
    /\ req = [r \in Reqs |-> NoRequest]
    /\ local = [r \in Reqs |-> NoLocal]
    /\ resp = [r \in Reqs |-> NoResponse]
    /\ backend = <<>>
    /\ stages = [r \in Reqs |-> <<>>]

NextSlots ==
    \/ TickPipeline
    \/ \E r \in Reqs : ReceiveSlot(r)
    \/ \E r \in Reqs : Validate(r)
    \/ \E r \in Reqs : Identify(r)
    \/ \E r \in Reqs : AcquireLimiter(r)
    \/ \E r \in Reqs : PurgeAndCheck(r)
    \/ \E r \in Reqs : Push(r)
    \/ \E r \in Reqs : Route(r)
    \/ \E r \in Reqs : Authorize(r)
    \/ \E r \in Reqs : ResolveAccount(r)
    \/ \E r \in Reqs : BackendCall(r)
    \/ \E r \in Reqs : BackendAnswer(r)
    \/ \E r \in Reqs : CollectBody(r)
    \/ \E r \in Reqs : AddHeaders(r)

SpecSlots == InitSlots /\ [][NextSlots]_vars

----------------------------------------------------------------------------
(* The rate limiter alone: calls of is_rate_limited on an empty table *)

LimiterUsers == {"alice"}

InitLimiter ==
    /\ config = DefaultConfig
    /\ clients = DOMAIN DefaultConfig.accounts
    /\ store = DefaultStore
    /\ now = 0
    /\ requests = <<>>
    /\ calls = <<>>
    /\ lock = NoHolder
    /\ pc = [r \in Reqs |-> "idle"]
    /\ req = [r \in Reqs |-> NoRequest]
    /\ local = [r \in Reqs |-> NoLocal]
    /\ resp = [r \in Reqs |-> NoResponse]
    /\ backend = <<>>
    /\ stages = [r \in Reqs |-> <<>>]

\* One call RATE_LIMITER.write().await.is_rate_limited(username)
Admit(username) ==
    /\ Len(calls) < MaxCalls
    /\ LET res == is_rate_limited(requests, username, now)
       IN  /\ requests' = res.table
           /\ calls' = Append(calls, [req |-> "call", user |-> username, t |-> now,
                                      limited |-> res.limited])
    /\ UNCHANGED <<config, clients, store, now, lock, pc, req, local, resp, backend, stages>>

NextLimiter ==
    \/ Tick
    \/ \E u \in LimiterUsers : Admit(u)

SpecLimiter == InitLimiter /\ [][NextLimiter]_vars

----------------------------------------------------------------------------
(* The rate limiter over time: a user who keeps calling while the clock    *)
(* advances past the window                                                *)

\* The instants of the clock: entries of age 1, window - 1, window and
\* window + 1 occur.
RecoverInstants == {0, 1, window, window + 1}

LastInstant == window + 1

TickRecover == Advance(RecoverInstants)

\* One call RATE_LIMITER.write().await.is_rate_limited(username); the
\* history keeps the call and the one before it.
AdmitLatest(username) ==
    /\ LET res == is_rate_limited(requests, username, now)
       IN  /\ requests' = res.table
           /\ calls' = Append(IF calls = <<>> THEN <<>> ELSE <<calls[Len(calls)]>>,
                              [req |-> "call", user |-> username, t |-> now,
                               limited |-> res.limited])
    /\ UNCHANGED <<config, clients, store, now, lock, pc, req, local, resp, backend, stages>>

NextRecover ==
    \/ TickRecover
    \/ \E u \in LimiterUsers : AdmitLatest(u)

\* The clock advances and the user keeps sending requests.
SpecRecover ==
    /\ InitLimiter /\ [][NextRecover]_vars
    /\ WF_vars(TickRecover)
    /\ \A u \in LimiterUsers : WF_vars(AdmitLatest(u))

----------------------------------------------------------------------------
(* The rate limiter with two users, one of whom may have used up its       *)
(* window                                                                  *)

TenantUsers == {"alice", "bob"}

\* The calls of alice that may have preceded.
TenantBursts == {0, max_requests - 1, max_requests}

InitTenants ==
    /\ config = DefaultConfig
    /\ clients = DOMAIN DefaultConfig.accounts
    /\ store = DefaultStore
    /\ now = 0
    /\ \E n \in TenantBursts :
          /\ requests = BurstTable("alice", n)
          /\ calls = BurstCalls("alice", n)
    /\ lock = NoHolder
    /\ pc = [r \in Reqs |-> "idle"]
    /\ req = [r \in Reqs |-> NoRequest]
    /\ local = [r \in Reqs |-> NoLocal]
    /\ resp = [r \in Reqs |-> NoResponse]
    /\ backend = <<>>
    /\ stages = [r \in Reqs |-> <<>>]

\* One call RATE_LIMITER.write().await.is_rate_limited(username)
AdmitTenant(username) ==
    /\ Cardinality({i \in 1..Len(calls) : calls[i].req = "call"}) < MaxTenantCalls
    /\ LET res == is_rate_limited(requests, username, now)
       IN  /\ requests' = res.table
           /\ calls' = Append(calls, [req |-> "call", user |-> username, t |-> now,
                                      limited |-> res.limited])
    /\ UNCHANGED <<config, clients, store, now, lock, pc, req, local, resp, backend, stages>>

NextTenants ==
    \/ Tick
    \/ \E u \in TenantUsers : AdmitTenant(u)

SpecTenants == InitTenants /\ [][NextTenants]_vars

----------------------------------------------------------------------------
(* The access gates alone: a request of any user configuration that has   *)
(* passed the rate limiter and reached its handler                         *)

Patterns == {"*", "b1", "b2"}

Handlers == {"get_object", "put_object", "list_objects"}

\* The vectors of at most two patterns
PatternVecs ==
    {<<>>} \cup {<<p>> : p \in Patterns}
           \cup {<<p, q>> : p \in Patterns, q \in Patterns}

AccessConfig(role, allowed) ==
    [DefaultConfig EXCEPT
        !.users = [u |-> [api_key |-> "ku", role |-> role, allowed_buckets |-> allowed]],
        !.user_order = <<"u">>]

\* The request that the router hands to handler h for bucket b
HandlerRequest(h, b) ==
    [method |-> IF h = "put_object" THEN "PUT" ELSE "GET",
     path |-> IF h = "list_objects" THEN <<"/", b>> ELSE <<"/", b, "/", "k1">>,
     api_key |-> HeaderText("ku"),
     content_length |-> HeaderAbsent, prefix |-> NoQueryPrefix, body |-> 0]

InitAccess ==
    /\ \E role \in Roles, allowed \in PatternVecs : config = AccessConfig(role, allowed)
    /\ clients = DOMAIN DefaultConfig.accounts
    /\ store = DefaultStore
    /\ now = 0
    /\ requests = BurstTable("u", 1)
    /\ calls = <<[req |-> "r1", user |-> "u", t |-> 0, limited |-> FALSE]>>
    /\ lock = NoHolder
    /\ pc = [r \in Reqs |-> IF r = "r1" THEN "authorize" ELSE "idle"]
    /\ \E h \in Handlers, b \in Buckets :
          /\ req = [r \in Reqs |-> IF r = "r1" THEN HandlerRequest(h, b) ELSE NoRequest]
          /\ local = [r \in Reqs |->
                        IF r = "r1"
                        THEN [NoLocal EXCEPT !.username = "u", !.handler = h, !.bucket = b,
                                             !.key = IF h = "list_objects" THEN <<>>
                                                     ELSE <<"k1">>]
                        ELSE NoLocal]
    /\ resp = [r \in Reqs |-> NoResponse]
    /\ backend = <<>>
    /\ stages = [r \in Reqs |->
                   IF r = "r1" THEN <<"Validated", "Identified", "RateChecked">> ELSE <<>>]

NextAccess ==
    \/ Authorize("r1")
    \/ ResolveAccount("r1")
    \/ BackendCall("r1")
    \/ BackendAnswer("r1")
    \/ CollectBody("r1")
    \/ AddHeaders("r1")

SpecAccess == InitAccess /\ [][NextAccess]_vars

----------------------------------------------------------------------------
(* Account resolution: two requests of a user who sees every bucket, under *)
(* every registry of two accounts, the ambiguous ones included, and every  *)
(* iteration order of the accounts map                                     *)

\* The buckets account acct1 and account acct2 may own.
OwnedBuckets1 == {<<"b1">>, <<"b1", "b2">>}
OwnedBuckets2 == {<<>>, <<"b1">>, <<"b2">>}

\* HashMap::iter visits the accounts in an order fixed for the map.
AccountOrders == {<<"acct1", "acct2">>, <<"acct2", "acct1">>}

RegistryConfig(owned1, owned2, order) ==
    [DefaultConfig EXCEPT
        !.users = [u |-> [api_key |-> "ku", role |-> "Admin", allowed_buckets |-> <<"*">>]],
        !.user_order = <<"u">>,
        !.accounts = [acct1 |-> [buckets |-> owned1], acct2 |-> [buckets |-> owned2]],
        !.account_order = order]

\* The handlers the two requests are for.
HandlersOf(r) == IF r = "r1" THEN Handlers ELSE {"get_object"}

InitRegistry ==
    /\ \E owned1 \in OwnedBuckets1, owned2 \in OwnedBuckets2, order \in AccountOrders :
          config = RegistryConfig(owned1, owned2, order)
    /\ clients = DOMAIN DefaultConfig.accounts
    /\ store = DefaultStore
    /\ now = 0
    /\ requests = BurstTable("u", 2)
    /\ calls = <<[req |-> "r1", user |-> "u", t |-> 0, limited |-> FALSE],
                 [req |-> "r2", user |-> "u", t |-> 0, limited |-> FALSE]>>
    /\ lock = NoHolder
    /\ pc = [r \in Reqs |-> "authorize"]
    /\ \E h \in [Reqs -> Handlers], b \in [Reqs -> Buckets] :
          /\ \A r \in Reqs : h[r] \in HandlersOf(r)
          /\ req = [r \in Reqs |-> HandlerRequest(h[r], b[r])]
          /\ local = [r \in Reqs |->
                        [NoLocal EXCEPT !.username = "u", !.handler = h[r], !.bucket = b[r],
                                        !.key = IF h[r] = "list_objects" THEN <<>>
                                                ELSE <<"k1">>]]
    /\ resp = [r \in Reqs |-> NoResponse]
    /\ backend = <<>>
    /\ stages = [r \in Reqs |-> <<"Validated", "Identified", "RateChecked">>]

NextRegistry ==
    \/ \E r \in Reqs : Authorize(r)
    \/ \E r \in Reqs : ResolveAccount(r)
    \/ \E r \in Reqs : BackendCall(r)
    \/ \E r \in Reqs : BackendAnswer(r)
    \/ \E r \in Reqs : CollectBody(r)
    \/ \E r \in Reqs : AddHeaders(r)

SpecRegistry == InitRegistry /\ [][NextRegistry]_vars

----------------------------------------------------------------------------
(* Startup: main builds the client table from the loaded configuration,    *)
(* one account per step, and then serves requests                          *)

\* The main task, whose position pc holds beside those of the requests.
MainTask == "main"

\* A configuration with a single account.
OneAccountConfig ==
    [RegistryConfig(<<"b1", "b2">>, <<>>, <<"acct1">>) EXCEPT
        !.accounts = [acct1 |-> [buckets |-> <<"b1", "b2">>]]]

\* The configurations main may have loaded.
StartupConfigs ==
    {RegistryConfig(owned1, owned2, order) :
        owned1 \in OwnedBuckets1, owned2 \in OwnedBuckets2, order \in AccountOrders}
    \cup {OneAccountConfig}

\* The requests sent to the server: gets, puts and lists of user u.
StartupInputs ==
    [method : Methods,
     path : { <<"/", "b1">>, <<"/", "b1", "/", "k1">>, <<"/", "b2", "/", "k1">>,
              <<"/", "b3", "/", "k1">> },
     api_key : {HeaderText("ku")},
     content_length : {HeaderAbsent}, prefix : {NoQueryPrefix}, body : {0}]

\* The accounts the loop over config.accounts has not visited yet, by
\* their place in the iteration order.
PendingAccounts ==
    {k \in 1..Len(config.account_order) : config.account_order[k] \notin clients}

InitStartup ==
    /\ config \in StartupConfigs
    /\ clients = {}
    /\ store = DefaultStore
    /\ now = 0
    /\ requests = <<>>
    /\ calls = <<>>
    /\ lock = NoHolder
    /\ pc = [t \in Reqs \cup {MainTask} |-> IF t = MainTask THEN "clients" ELSE "idle"]
    /\ req = [r \in Reqs |-> NoRequest]
    /\ local = [r \in Reqs |-> NoLocal]
    /\ resp = [r \in Reqs |-> NoResponse]
    /\ backend = <<>>
    /\ stages = [r \in Reqs |-> <<>>]

\* One turn of the loop: S3Client::new returns Ok for every account, and
\* the client is inserted under the account's id.
CreateClient ==
    /\ pc[MainTask] = "clients"
    /\ PendingAccounts # {}
    /\ LET k == CHOOSE k \in PendingAccounts : \A j \in PendingAccounts : k <= j
       IN  clients' = clients \cup {config.account_order[k]}
    /\ UNCHANGED <<config, store, now, requests, lock, pc, req, local, resp,
                   backend, stages, calls>>

\* A main that builds the router while the loop is still running.
ServeBeforeClients ==
    /\ pc[MainTask] = "clients"
    /\ pc' = [pc EXCEPT ![MainTask] = "serving"]
    /\ UNCHANGED <<config, clients, store, now, requests, lock, req, local, resp,
                   backend, stages, calls>>

\* The loop has ended: the table moves into AppState and the server
\* starts to accept requests.
Serve ==
    /\ pc[MainTask] = "clients"
    /\ PendingAccounts = {}
    /\ pc' = [pc EXCEPT ![MainTask] = "serving"]
    /\ UNCHANGED <<config, clients, store, now, requests, lock, req, local, resp,
                   backend, stages, calls>>

ReceiveServed(r) ==
    /\ pc[MainTask] = "serving"
    /\ ReceiveFrom(r, StartupInputs)

NextStartup ==
    \/ CreateClient
    \/ Serve
    \/ \E r \in Reqs : ReceiveServed(r)
    \/ \E r \in Reqs : Validate(r)
    \/ \E r \in Reqs : Identify(r)
    \/ \E r \in Reqs : AcquireLimiter(r)
    \/ \E r \in Reqs : PurgeAndCheck(r)
    \/ \E r \in Reqs : Push(r)
    \/ \E r \in Reqs : Route(r)
    \/ \E r \in Reqs : Authorize(r)
    \/ \E r \in Reqs : ResolveAccount(r)
    \/ \E r \in Reqs : BackendCall(r)
    \/ \E r \in Reqs : BackendAnswer(r)
    \/ \E r \in Reqs : CollectBody(r)
    \/ \E r \in Reqs : AddHeaders(r)

SpecStartup == InitStartup /\ [][NextStartup]_vars

----------------------------------------------------------------------------
(* s3.rs: list_objects alone, on every paging of a bucket's objects        *)

Objects == {"o1", "o2", "o3"}

\* The contents of a page: up to MaxPageSize of the objects not listed on an
\* earlier page, none of them twice.
ItemSeqs(free) ==
    {items \in UNION {[1..n -> free] : n \in 0..MaxPageSize} :
        \A i \in 1..Len(items), j \in 1..Len(items) : items[i] = items[j] => i = j}

\* Page i of n: contents is None, or Some of a vector that may be empty;
\* the page carries the token of page i + 1 or, as the last page must, none.
PageChoices(i, n, free) ==
    {Page(FALSE, <<>>, next) : next \in IF i = n THEN {NoToken} ELSE {NoToken, i + 1}}
    \cup {Page(TRUE, items, next) :
             items \in ItemSeqs(free),
             next \in IF i = n THEN {NoToken} ELSE {NoToken, i + 1}}

\* The pages i..n of a paging; a key is listed once.
RECURSIVE PagesFrom(_, _, _)
PagesFrom(i, n, free) ==
    IF i > n THEN {<<>>}
    ELSE UNION {{<<page>> \o rest : rest \in PagesFrom(i + 1, n, free \ Range(page.items))} :
                   page \in PageChoices(i, n, free)}

RECURSIVE Flatten(_)
Flatten(pages) ==
    IF pages = <<>> THEN <<>> ELSE Head(pages).items \o Flatten(Tail(pages))

\* The pagings of a bucket's objects: up to MaxPages pages.
Listings == UNION {PagesFrom(1, n, Objects) : n \in 1..MaxPages}

\* The page the backend answers a list_objects_v2 request with.
PageFor(listing, token) == listing[IF token = NoToken THEN 1 ELSE token]

\* A loop body that keeps only the contents of the page just fetched.
ExtendKeepingLast(objects, page) == IF page.some THEN page.items ELSE objects

\* s3.rs:61-63  if let Some(contents) = response.contents { objects.extend(contents) }
Extend(objects, page) == IF page.some THEN objects \o page.items ELSE objects

InitList ==
    /\ config = DefaultConfig
    /\ clients = DOMAIN DefaultConfig.accounts
    /\ \E listing \in Listings : store = [DefaultStore EXCEPT !["b1"] = listing]
    /\ now = 0
    /\ requests = BurstTable("alice", 1)
    /\ calls = <<[req |-> "r1", user |-> "alice", t |-> 0, limited |-> FALSE]>>
    /\ lock = NoHolder
    /\ pc = [r \in Reqs |-> IF r = "r1" THEN "list" ELSE "idle"]
    /\ \E prefix \in {NoQueryPrefix, QueryPrefix("k")} :
          req = [r \in Reqs |-> IF r = "r1"
                                THEN [HandlerRequest("list_objects", "b1")
                                        EXCEPT !.api_key = HeaderText("ka"),
                                               !.prefix = prefix]
                                ELSE NoRequest]
    /\ local = [r \in Reqs |->
                  IF r = "r1"
                  THEN [NoLocal EXCEPT !.username = "alice", !.handler = "list_objects",
                                       !.bucket = "b1", !.account = "acct1"]
                  ELSE NoLocal]
    /\ resp = [r \in Reqs |-> NoResponse]
    /\ backend = <<>>
    /\ stages = [r \in Reqs |->
                   IF r = "r1" THEN SubSeq(StageOrder, 1, 5) ELSE <<>>]

\* s3.rs:51-59  one turn of the loop of S3Client::list_objects: the request
\* for the page of the current token is sent, and the task waits for the
\* answer.
ListPage(r) ==
    /\ pc[r] = "list"
    /\ backend' = Append(backend, [req |-> r, op |-> "list_objects_v2",
                                   account |-> local[r].account,
                                   bucket |-> local[r].bucket, key |-> <<>>,
                                   token |-> local[r].continuation_token,
                                   prefix |-> req[r].prefix,
                                   outcome |-> "pending"])
    /\ pc' = [pc EXCEPT ![r] = "page"]
    /\ stages' = [stages EXCEPT ![r] = IF Contains(@, "Dispatched") THEN @
                                       ELSE Append(@, "Dispatched")]
    /\ UNCHANGED <<config, clients, store, now, requests, lock, req, local, resp, calls>>

\* s3.rs:59-69  the answer: on success the extension of objects, the new
\* token and the break when there is none; with the break list_objects
\* returns and the handler builds its response (server.rs:136-153).  A
\* failed request ends the call with the error.
ListAnswer(r) ==
    /\ pc[r] = "page"
    /\ \E outcome \in BackendOutcomes("list_objects") :
          /\ backend' = [backend EXCEPT ![LastCallOf(r)].outcome = outcome]
          /\ IF outcome = "fault"
             THEN /\ resp' = [resp EXCEPT ![r] =
                                BackendResponse("list_objects", local[r].bucket, <<>>, "fault")]
                  /\ pc' = [pc EXCEPT ![r] = "headers"]
                  /\ UNCHANGED local
             ELSE LET page == PageFor(store[local[r].bucket], local[r].continuation_token)
                  IN  /\ local' = [local EXCEPT
                                     ![r].objects = Extend(@, page),
                                     ![r].continuation_token = page.next]
                      /\ IF page.next = NoToken
                         THEN /\ resp' = [resp EXCEPT ![r] =
                                            BackendResponse("list_objects", local[r].bucket,
                                                            <<>>, "ok")]
                              /\ pc' = [pc EXCEPT ![r] = "headers"]
                         ELSE /\ pc' = [pc EXCEPT ![r] = "list"]
                              /\ UNCHANGED resp
    /\ UNCHANGED <<config, clients, store, now, requests, lock, req, stages, calls>>

NextList ==
    \/ ListPage("r1")
    \/ ListAnswer("r1")
    \/ AddHeaders("r1")

SpecList == InitList /\ [][NextList]_vars

----------------------------------------------------------------------------
(* Validation: one request, of a wider range of methods, paths and         *)
(* content lengths, through the pipeline                                   *)

ValidateMethods == {"GET", "HEAD", "PUT", "POST"}

\* "", "/", "/b1", "/b1/", "/b1/k1", "/b1/k1/k2"
ValidatePaths ==
    { <<>>,
      <<"/">>,
      <<"/", "b1">>,
      <<"/", "b1", "/">>,
      <<"/", "b1", "/", "k1">>,
      <<"/", "b1", "/", "k1", "/", "k2">> }

\* The HTTP layer hands on a content-length header only when it is a decimal
\* number that fits u64.
ValidateLengths ==
    { HeaderAbsent, HeaderNumber(0), HeaderNumber(default_body_limit),
      HeaderNumber(default_body_limit + 1), HeaderNumber(default_max_file_size),
      HeaderNumber(default_max_file_size + 1) }

\* A body sent in chunks is empty or one byte over the body limit.
ValidateInputs ==
    WithBody([method : ValidateMethods, path : ValidatePaths,
              api_key : {HeaderText("ka"), HeaderText("kx")},
              content_length : ValidateLengths, prefix : {NoQueryPrefix}],
             {0, default_body_limit + 1})

ReceiveAny(r) == ReceiveFrom(r, ValidateInputs)

NextValidate ==
    \/ ReceiveAny("r1")
    \/ Validate("r1")
    \/ Identify("r1")
    \/ AcquireLimiter("r1")
    \/ PurgeAndCheck("r1")
    \/ Push("r1")
    \/ Route("r1")
    \/ Authorize("r1")
    \/ ResolveAccount("r1")
    \/ BackendCall("r1")
    \/ BackendAnswer("r1")
    \/ CollectBody("r1")
    \/ AddHeaders("r1")

SpecValidate == Init /\ [][NextValidate]_vars

----------------------------------------------------------------------------
(* Vocabulary of the properties *)

\* The calls of the same user made before call i, less than window seconds
\* before it, and those of them that were Allowed.
CallsInWindow(i) ==
    {j \in 1..(i - 1) : /\ calls[j].user = calls[i].user
                        /\ calls[i].t - calls[j].t < window}

AllowedInWindow(i) == {j \in CallsInWindow(i) : ~ calls[j].limited}

\* The Allowed calls of user u whose timestamps lie in the 60 seconds that
\* end at instant T.
AllowedIn(u, T) ==
    {i \in 1..Len(calls) : /\ calls[i].user = u
                           /\ ~ calls[i].limited
                           /\ calls[i].t <= T
                           /\ T - calls[i].t < window}

\* new is old without its entries that are window seconds old or older at t.
IsPurgeOf(new, old, t) ==
    \E k \in 0..Len(old) :
       /\ new = SubSeq(old, k + 1, Len(old))
       /\ \A i \in 1..k : t - old[i] >= window
       /\ \A i \in (k + 1)..Len(old) : t - old[i] < window

\* The number of timestamps the limiter's table holds.
TableSize(table) ==
    Cardinality(UNION {{<<u, i>> : i \in 1..Len(table[u])} : u \in DOMAIN table})

InLimiter(r) == pc[r] \in {"purge", "push"}

Dispatched(r) == \E i \in 1..Len(backend) : backend[i].req = r

Passed(r, stage) == Contains(stages[r], stage)

RateLimitError == Err("InvalidRequest", <<"Rate limit exceeded">>)
WriteDenied == Err("Unauthorized", <<"Write permission denied">>)
BucketDenied(bucket) == Err("Unauthorized", <<"Not allowed to access bucket: ", bucket>>)
InvalidKey == Err("Unauthorized", <<"Invalid API key">>)

----------------------------------------------------------------------------
(* Properties *)

\* C1: with non-decreasing timestamps, a call of a user is Allowed whenever
\* fewer than 100 calls of that user were made in the 60 seconds before it,
\* and a call made after 100 Allowed ones of the same 60 seconds is Limited.
\* Stated of the latest call; every earlier call was the latest in an
\* earlier state.
C1_AdmitUpToLimit ==
    calls # <<>> =>
       LET i == Len(calls)
       IN  /\ Cardinality(CallsInWindow(i)) < max_requests => ~ calls[i].limited
           /\ Cardinality(AllowedInWindow(i)) >= max_requests => calls[i].limited

\* C1 witness: the 101st call of one window has been made after 100 Allowed
\* ones, one second after the first of them, and was Limited.
C1_Witness ==
    /\ Len(calls) = max_requests + 1
    /\ \A j \in 1..max_requests : ~ calls[j].limited
    /\ calls[max_requests + 1].limited
    /\ calls[max_requests + 1].t - calls[1].t = 1

\* C2: whatever the interleaving of the requests, at most one of them is
\* inside the purge-check-append sequence at a time, and for every user the
\* Allowed calls whose timestamps lie in the 60 seconds that end at any
\* instant up to now never exceed 100.
C2_CeilingUnderInterleaving ==
    /\ \A a \in Reqs, b \in Reqs : InLimiter(a) /\ InLimiter(b) => a = b
    /\ \A u \in DOMAIN config.users, T \in {t \in Instants : t <= now} :
          Cardinality(AllowedIn(u, T)) <= max_requests

\* C2 witness: two requests of one user went through the limiter when 99
\* timestamps were recorded; one was admitted as the 100th, the other
\* Limited.
C2_Witness ==
    \E a \in Reqs, b \in Reqs :
       /\ a # b
       /\ local[a].username = local[b].username
       /\ Passed(a, "RateChecked")
       /\ resp[b].err = RateLimitError
       /\ Cardinality(AllowedIn(local[a].username, now)) = max_requests

\* C3: a call that returns Limited leaves the user's vector as it was but
\* for the purge of the entries 60 seconds old or older; a call that returns
\* Allowed leaves the purged vector with exactly one timestamp, the current
\* time, appended.
C3_LimitedNotRecorded ==
    [][ Len(calls') = Len(calls) + 1 =>
          LET c == calls'[Len(calls')]
              old == EntryOrDefault(requests, c.user)
              new == requests'[c.user]
          IN  /\ c.t = now
              /\ IF c.limited
                 THEN IsPurgeOf(new, old, c.t)
                 ELSE /\ new # <<>>
                      /\ new[Len(new)] = c.t
                      /\ IsPurgeOf(SubSeq(new, 1, Len(new) - 1), old, c.t) ]_vars

\* C3 witness: a call has returned Limited, after one that purged entries and
\* was Allowed.
C3_Witness ==
    /\ Len(calls) > max_requests + 1
    /\ calls[Len(calls)].limited
    /\ \E i \in 1..Len(calls) : ~ calls[i].limited /\ calls[i].t = window

\* The states a request must have passed before its backend call.
BeforeDispatch == SubSeq(StageOrder, 1, 5)

IsPrefix(s, t) == Len(s) <= Len(t) /\ \A i \in 1..Len(s) : s[i] = t[i]

\* s is a run through the states in their order, which a failure may cut
\* short, ended or not by the Responded state.
InOrder(s) ==
    \E k \in 0..6 :
       \/ s = SubSeq(StageOrder, 1, k)
       \/ s = Append(SubSeq(StageOrder, 1, k), "Responded")

\* The request of task r passes every gate of the pipeline.
GatesPassed(r) ==
    /\ validate_request(config, req[r]) = NoError
    /\ ApiKeyError(req[r]) = NoError
    /\ local[r].username \in DOMAIN config.users
    /\ config.users[local[r].username].api_key = HeaderString(req[r].api_key)
    /\ \E i \in 1..Len(calls) :
          calls[i].req = r /\ calls[i].user = local[r].username /\ ~ calls[i].limited
    /\ is_bucket_allowed(config, local[r].username, local[r].bucket)
    /\ local[r].handler = "put_object" => can_write(config, local[r].username)
    /\ local[r].account \in DOMAIN config.accounts
    /\ Contains(config.accounts[local[r].account].buckets, local[r].bucket)

\* C4: a request reaches the backend only after it has passed validation,
\* identity resolution, rate-limit admission, authorization and account
\* resolution, in this order and each once; a request that ends before
\* account resolution ends with a response that is no success and without
\* a backend call.
C4_GatesBeforeBackend ==
    \A r \in Reqs :
       /\ InOrder(stages[r])
       /\ Cardinality({i \in 1..Len(backend) : backend[i].req = r}) <= 1
       /\ Dispatched(r) => IsPrefix(BeforeDispatch, stages[r]) /\ GatesPassed(r)
       /\ pc[r] \in {"headers", "done"} /\ ~ Passed(r, "Routed") =>
             /\ ~ Dispatched(r)
             /\ resp[r].status # 200
             /\ \/ resp[r].err # NoError
                \/ RouteOf(req[r]) \in {"not_found", "method_not_allowed"}
                \/ BodyTooLarge(req[r]) /\ resp[r].status = 413

\* C4 witness: one request was answered 200 after its backend call, the
\* other was refused by a gate and made none.
C4_Witness ==
    \E a \in Reqs, b \in Reqs :
       /\ pc[a] = "done" /\ Dispatched(a) /\ resp[a].status = 200
       /\ pc[b] = "done" /\ ~ Dispatched(b) /\ resp[b].err = BucketDenied("b2")

\* C5: before the backend call the gateway changes nothing but the
\* limiter's table, and that only inside the rate check of a request: a step
\* of validation or of identity resolution, failed or not, leaves the table
\* as it is, and a request records at most one timestamp, at its admission.
C5_OnlyRateCheckMutates ==
    [][ /\ config' = config /\ clients' = clients
        /\ requests' # requests =>
              \E r \in Reqs : InLimiter(r) /\ pc'[r] # pc[r]
        /\ \A r \in Reqs :
              pc[r] \in {"idle", "validate", "identify"} /\ pc'[r] # pc[r] =>
                 requests' = requests
        /\ TableSize(requests') > TableSize(requests) =>
              /\ TableSize(requests') = TableSize(requests) + 1
              /\ \E r \in Reqs : /\ pc[r] = "push" /\ pc'[r] = "route"
                                 /\ ~ Passed(r, "RateChecked")
                                 /\ Passed(r, "RateChecked")' ]_vars

\* C5 witness: a request with an unknown API key has been refused while the
\* other request was admitted and recorded its one timestamp.
C5_Witness ==
    \E a \in Reqs, b \in Reqs :
       /\ pc[a] = "done" /\ resp[a].err = InvalidKey
       /\ \A i \in 1..Len(calls) : calls[i].req # a
       /\ Passed(b, "RateChecked")
       /\ Cardinality({i \in 1..Len(calls) : calls[i].req = b}) = 1

\* The handler of task r has run its access checks.
AtHandler(r) ==
    /\ pc[r] \in {"resolve", "backend", "answer", "collect", "headers", "done"}
    /\ local[r].handler \in Handlers

\* The permitted patterns of the user of task r hold the wildcard or the
\* bucket of the request.
Visible(r) ==
    LET patterns == Range(config.users[local[r].username].allowed_buckets)
    IN  "*" \in patterns \/ local[r].bucket \in patterns

RoleOf(r) == config.users[local[r].username].role

\* C6: a bucket is visible to a user if and only if the user's permitted
\* patterns hold the wildcard or the bucket's name; a handler answers with
\* the bucket-access denial exactly for the buckets that are not visible.
C6_BucketVisibility ==
    /\ \A u \in DOMAIN config.users, b \in Buckets :
          is_bucket_allowed(config, u, b) <=>
             \/ "*" \in Range(config.users[u].allowed_buckets)
             \/ b \in Range(config.users[u].allowed_buckets)
    /\ \A r \in Reqs :
          AtHandler(r) =>
             /\ resp[r].err = BucketDenied(local[r].bucket) <=> ~ Visible(r)
             /\ Passed(r, "Authorized") => Visible(r)

\* C6 witness: a user whose patterns are {b1} was denied b2, in a state
\* space where a user with the wildcard passed the checks for b3.
C6_Witness ==
    /\ config.users["u"].allowed_buckets = <<"b1">>
    /\ AtHandler("r1")
    /\ local["r1"].bucket = "b2"
    /\ resp["r1"].err = BucketDenied("b2")

\* C7 as stated: a put reaches the backend only for role Admin or User and
\* a visible bucket; for role Readonly every put is denied with the
\* write-denied error; for Admin and User it is authorized exactly when the
\* bucket is visible.
C7_ReadonlyAlwaysWriteDenied ==
    \A r \in Reqs :
       AtHandler(r) /\ local[r].handler = "put_object" =>
          /\ Dispatched(r) => RoleOf(r) \in {"Admin", "User"} /\ Visible(r)
          /\ RoleOf(r) = "Readonly" =>
                ~ Passed(r, "Authorized") /\ resp[r].err = WriteDenied
          /\ RoleOf(r) \in {"Admin", "User"} => (Passed(r, "Authorized") <=> Visible(r))

\* C7 amended: a put reaches the backend only for role Admin or User and a
\* visible bucket; for role Readonly every put is denied, with the
\* write-denied error when the bucket is visible and with the bucket-access
\* denial when it is not; for Admin and User it is authorized exactly when
\* the bucket is visible.
C7_PutNeedsWriteRole ==
    \A r \in Reqs :
       AtHandler(r) /\ local[r].handler = "put_object" =>
          /\ Dispatched(r) => RoleOf(r) \in {"Admin", "User"} /\ Visible(r)
          /\ RoleOf(r) = "Readonly" =>
                /\ ~ Passed(r, "Authorized")
                /\ resp[r].err = IF Visible(r) THEN WriteDenied
                                 ELSE BucketDenied(local[r].bucket)
          /\ RoleOf(r) \in {"Admin", "User"} => (Passed(r, "Authorized") <=> Visible(r))

\* C7 witness: a Readonly user's put to a visible bucket was answered with
\* the write-denied error.
C7_Witness ==
    \E r \in Reqs :
       /\ AtHandler(r) /\ local[r].handler = "put_object"
       /\ RoleOf(r) = "Readonly" /\ Visible(r)
       /\ pc[r] = "done" /\ resp[r].err = WriteDenied

\* C8: every response the gateway returns carries the four security
\* headers.
C8_SecurityHeadersAlways ==
    \A r \in Reqs : pc[r] = "done" => SecurityHeaders \subseteq resp[r].headers

\* The status the error taxonomy of the spec gives an error kind.
TaxonomyStatus(kind) ==
    CASE kind \in {"BucketNotFound", "ObjectNotFound"} -> 404
      [] kind = "Unauthorized" -> 401
      [] kind = "InvalidRequest" -> 400
      [] OTHER -> 500

\* C9: every error the pipeline answers with has the status of its kind:
\* 404 for the not-found kinds, 401 for Unauthorized, 400 for
\* InvalidRequest, 500 for backend and internal faults.
C9_ErrorKindsHaveStatus ==
    \A r \in Reqs :
       pc[r] = "done" /\ resp[r].err # NoError =>
          resp[r].status = TaxonomyStatus(resp[r].err.kind)

\* The request of task r was refused for its credential.
CredentialRefused(r) ==
    pc[r] = "done" /\ Passed(r, "Validated") /\ ~ Passed(r, "Identified")

\* C10: two requests that differ only in how the credential is invalid get
\* the same response.
C10_InvalidCredentialsAlike ==
    \A a \in Reqs, b \in Reqs :
       /\ CredentialRefused(a) /\ CredentialRefused(b)
       /\ req[a].method = req[b].method /\ req[a].path = req[b].path
       /\ req[a].content_length = req[b].content_length
       => resp[a] = resp[b]

\* The request of task r has been through validate_request.
Validation(r) == pc[r] \notin {"idle", "validate"}

\* The request of task r has been through the router.
Routed(r) == Passed(r, "RateChecked") /\ pc[r] # "route"

\* A path /bucket
IsBucketPath(p) == Len(p) = 2 /\ p[1] = "/" /\ p[2] # "/"

\* A path /bucket/key, where the key may hold separators: /bucket/k1/k2
IsObjectPath(p) ==
    /\ Len(p) >= 4
    /\ p[1] = "/" /\ p[2] # "/" /\ p[3] = "/"
    /\ p[4] # "/" /\ p[Len(p)] # "/"

PathFormatError == Err("InvalidRequest", <<"Invalid path format">>)

\* C11: a path /bucket passes validation as a list request, and a path
\* /bucket/k1/k2 passes it as a request for the bucket and the key k1/k2,
\* the whole remainder of the path; a GET or PUT of such a path reaches its
\* handler with that bucket and key.
C11_KeyIsRemainder ==
    \A r \in Reqs :
       Validation(r) /\ ~ SizeExceeded(config, req[r]) =>
          LET p == req[r].path
          IN  /\ IsBucketPath(p) \/ IsObjectPath(p) => Passed(r, "Validated")
              /\ IsBucketPath(p) /\ Routed(r) /\ req[r].method = "GET" =>
                    local[r].handler = "list_objects" /\ local[r].bucket = p[2]
              /\ IsObjectPath(p) /\ Routed(r) /\ req[r].method \in {"GET", "PUT"} =>
                    /\ local[r].handler =
                          IF req[r].method = "GET" THEN "get_object" ELSE "put_object"
                    /\ local[r].bucket = p[2]
                    /\ local[r].key = SubSeq(p, 4, Len(p))

\* The path has a bucket segment once its leading separator is stripped.
HasBucket(p) ==
    LET stripped == IF HasPrefix(p) THEN Tail(p) ELSE p
    IN  stripped # <<>> /\ Head(stripped) # "/"

\* C12: a path without a bucket segment, the empty path and "/" among them,
\* fails validation with the InvalidRequest format error.
C12_NoBucketRejected ==
    \A r \in Reqs :
       Validation(r) /\ ~ SizeExceeded(config, req[r]) /\ ~ HasBucket(req[r].path) =>
          pc[r] = "done" /\ resp[r].err = PathFormatError

\* The declared content length of a PUT is above the configured maximum.
OverCeiling(r) ==
    /\ req[r].method = "PUT"
    /\ req[r].content_length.kind = "number"
    /\ req[r].content_length.n > config.max_file_size

IsSizeError(err) == err # NoError /\ Head(err.msg) = "File size "

\* C13: a PUT whose declared content length exceeds the configured maximum
\* is refused with InvalidRequest before the identity lookup, the rate
\* check and any backend call; a PUT with no content length or one of at
\* most the maximum, and a request of another method whatever its content
\* length, is not refused by the size check.
C13_PayloadCeiling ==
    \A r \in Reqs :
       Validation(r) =>
          IF OverCeiling(r)
          THEN /\ pc[r] = "done"
               /\ resp[r].err.kind = "InvalidRequest" /\ IsSizeError(resp[r].err)
               /\ resp[r].err.msg[2] = ToString(req[r].content_length.n)
               /\ resp[r].err.msg[4] = ToString(config.max_file_size)
               /\ stages[r] = <<>> /\ local[r] = NoLocal
               /\ \A i \in 1..Len(calls) : calls[i].req # r
               /\ ~ Dispatched(r)
          ELSE /\ ~ IsSizeError(resp[r].err)
               /\ ~ BadPathFormat(req[r]) => Passed(r, "Validated")

\* C13 witness: a PUT of one byte more than the maximum was refused by the
\* size check, in a state space where a PUT of exactly the maximum passes
\* it.
C13_Witness ==
    /\ OverCeiling("r1")
    /\ req["r1"].content_length.n = default_max_file_size + 1
    /\ pc["r1"] = "done"
    /\ IsSizeError(resp["r1"].err)

\* A PUT of exactly the maximum has passed the size check; its body is over
\* the body limit and the extractor of put_object has refused it.
C13_AtLimitAccepted ==
    /\ req["r1"].method = "PUT"
    /\ req["r1"].content_length = HeaderNumber(default_max_file_size)
    /\ Passed("r1", "RateChecked") /\ ~ Dispatched("r1")
    /\ pc["r1"] = "done" /\ resp["r1"].status = 413

\* A PUT of exactly the body limit has reached the backend.
C13_AtBodyLimitStored ==
    /\ req["r1"].method = "PUT"
    /\ req["r1"].content_length = HeaderNumber(default_body_limit)
    /\ Dispatched("r1")

\* The accounts of the registry that claim the bucket.
Claimants(bucket) ==
    {a \in DOMAIN config.accounts : bucket \in Range(config.accounts[a].buckets)}

\* Task r has been through get_account_and_client.
Resolution(r) ==
    AtHandler(r) /\ Passed(r, "Authorized") /\ pc[r] # "resolve"

\* C15: when at least one account claims the bucket, resolution gives an
\* account whose buckets contain it; when none does, and only then, the
\* request is answered BucketNotFound with status 404 and makes no backend
\* call, even though the user's wildcard makes the bucket visible.
C15_ClaimedOrNotFound ==
    \A r \in Reqs :
       Resolution(r) =>
          IF Claimants(local[r].bucket) # {}
          THEN /\ Passed(r, "Routed")
               /\ local[r].account \in Claimants(local[r].bucket)
               /\ resp[r].err.kind # "BucketNotFound"
          ELSE /\ ~ Passed(r, "Routed") /\ ~ Dispatched(r)
               /\ resp[r].err = Err("BucketNotFound", <<local[r].bucket>>)
               /\ resp[r].status = 404

\* C15 witness: a user with the wildcard asked for b3, which no account
\* claims, and was answered 404 BucketNotFound.
C15_Witness ==
    /\ Visible("r1") /\ local["r1"].bucket = "b3" /\ Claimants("b3") = {}
    /\ pc["r1"] = "done"
    /\ resp["r1"].err.kind = "BucketNotFound" /\ resp["r1"].status = 404
    /\ backend = <<>>

\* The pages of a listing that the tokens link, from page i on.
RECURSIVE ChainFrom(_, _)
ChainFrom(listing, i) ==
    IF listing[i].next = NoToken THEN <<listing[i]>>
    ELSE <<listing[i]>> \o ChainFrom(listing, listing[i].next)

\* The list_objects_v2 requests task r has made.
Fetches(r) == SelectSeq(backend, LAMBDA call : call.req = r)

\* C16: a listing that succeeds holds exactly the objects of the pages the
\* backend links by continuation tokens, in page order: their
\* concatenation, so no entry lost, duplicated or reordered; the loop asks
\* for each linked page once, with the token of the page before and the
\* prefix of the request, and stops at the first page without a token.
C16_ListingIsConcatenation ==
    \A r \in Reqs :
       /\ local[r].handler = "list_objects" /\ pc[r] \in {"headers", "done"}
       /\ resp[r].status = 200
       => LET chain == ChainFrom(store[local[r].bucket], 1)
              fetches == Fetches(r)
          IN  /\ local[r].objects = Flatten(chain)
              /\ Cardinality(Range(local[r].objects)) = Len(local[r].objects)
              /\ Len(fetches) = Len(chain)
              /\ \A i \in 1..Len(fetches) :
                    /\ fetches[i].token = IF i = 1 THEN NoToken ELSE chain[i - 1].next
                    /\ fetches[i].prefix = req[r].prefix
              /\ chain[Len(chain)].next = NoToken
              /\ \A i \in 1..(Len(chain) - 1) : chain[i].next # NoToken

\* C16 witness: three objects came over three pages, the second of them
\* without contents, and the listing holds the three in page order.
C16_Witness ==
    /\ pc["r1"] = "done" /\ resp["r1"].status = 200
    /\ Len(Fetches("r1")) = 3
    /\ ~ store["b1"][2].some
    /\ Len(local["r1"].objects) = 3
    /\ local["r1"].objects = store["b1"][1].items \o store["b1"][3].items

\* C17: a get makes one backend fetch and answers by its outcome: "no such
\* key" with ObjectNotFound, status 404, naming the bucket and the key;
\* every other fault of the fetch with the backend error of get, status 500;
\* a body that cannot be read with status 500; success with status 200 and
\* the object's bytes (none for HEAD).  Until the fetch is answered and the
\* body read, the handler has no response.
C17_GetMapsOutcome ==
    \A r \in Reqs :
       local[r].handler = "get_object" /\ Dispatched(r) =>
          /\ Len(Fetches(r)) = 1
          /\ LET outcome == Fetches(r)[1].outcome
             IN  CASE outcome = "pending" ->
                        pc[r] = "answer" /\ resp[r] = NoResponse
                   [] outcome = "ok" /\ pc[r] = "collect" ->
                        resp[r] = NoResponse
                   [] outcome = "no_such_key" ->
                        /\ resp[r].err = Err("ObjectNotFound",
                                             <<local[r].bucket, "/">> \o local[r].key)
                        /\ resp[r].message = <<"Object not found: ", local[r].bucket, "/">>
                                                 \o local[r].key
                        /\ resp[r].status = 404
                   [] outcome = "fault" ->
                        resp[r].err.kind = "GetObjectError" /\ resp[r].status = 500
                   [] outcome = "body_fault" ->
                        resp[r].err.kind = "InternalError" /\ resp[r].status = 500
                   [] outcome = "ok" /\ pc[r] # "collect" ->
                        /\ pc[r] \in {"headers", "done"}
                        /\ resp[r].err = NoError /\ resp[r].status = 200
                        /\ resp[r].body = IF pc[r] = "done" /\ req[r].method = "HEAD"
                                          THEN "empty" ELSE "object"

\* C17 witness: a get of b1/k1 whose fetch found no such key was answered
\* 404 ObjectNotFound.
C17_Witness ==
    /\ local["r1"].handler = "get_object" /\ pc["r1"] = "done"
    /\ Len(Fetches("r1")) = 1 /\ Fetches("r1")[1].outcome = "no_such_key"
    /\ resp["r1"].status = 404
    /\ resp["r1"].message = <<"Object not found: ", "b1", "/", "k1">>

\* C18: the gates of a handler are bucket visibility, then write permission
\* (puts only), then account resolution: a request for a bucket the caller
\* does not see is answered with the bucket-access denial, whatever the
\* caller's role and whether or not an account owns the bucket; a Readonly
\* caller's put to a visible bucket is answered write-denied, also when no
\* account owns the bucket; BucketNotFound is answered only after both
\* access checks passed.
C18_GateOrder ==
    \A r \in Reqs :
       AtHandler(r) =>
          /\ ~ Visible(r) =>
                ~ Passed(r, "Authorized") /\ resp[r].err = BucketDenied(local[r].bucket)
          /\ Visible(r) /\ local[r].handler = "put_object" /\ RoleOf(r) = "Readonly" =>
                ~ Passed(r, "Authorized") /\ resp[r].err = WriteDenied
          /\ resp[r].err.kind = "BucketNotFound" \/ Passed(r, "Routed") =>
                /\ Passed(r, "Authorized") /\ Visible(r)
                /\ local[r].handler = "put_object" => RoleOf(r) # "Readonly"

\* C18 witness: a Readonly caller's put to b3, visible through the wildcard
\* and owned by no account, was answered write-denied.
C18_Witness ==
    /\ local["r1"].handler = "put_object" /\ local["r1"].bucket = "b3"
    /\ RoleOf("r1") = "Readonly" /\ Visible("r1") /\ Claimants("b3") = {}
    /\ pc["r1"] = "done" /\ resp["r1"].err = WriteDenied

\* A caller of any role was denied a bucket it does not see and no account
\* owns.
C18_InvisibleUnowned ==
    /\ local["r1"].bucket = "b3" /\ ~ Visible("r1") /\ Claimants("b3") = {}
    /\ pc["r1"] = "done" /\ resp["r1"].err = BucketDenied("b3")

\* The latest call of the limiter was for user u and was Limited, or Allowed.
LimitedNow(u) ==
    calls # <<>> /\ calls[Len(calls)].user = u /\ calls[Len(calls)].limited
AllowedNow(u) ==
    calls # <<>> /\ calls[Len(calls)].user = u /\ ~ calls[Len(calls)].limited

\* The oldest timestamp of user u reaches the age of the window before the
\* clock of the model stops.
Recoverable(u) ==
    /\ u \in DOMAIN requests /\ requests[u] # <<>>
    /\ requests[u][1] + window <= LastInstant

\* C19: a call keeps the recorded timestamps of age below 60 seconds and
\* purges those of age 60 seconds or more; a Limited call leaves the vector
\* as it is, so it does not prolong the limit; a call made when 100
\* timestamps are recorded and the oldest is 60 seconds old is Allowed; and
\* a Limited user who keeps calling while the clock advances is eventually
\* Allowed again.
C19_LimitedRecovers ==
    /\ [][ now' = now /\ calls' # <<>> /\ (calls' # calls \/ requests' # requests) =>
             LET c == calls'[Len(calls')]
                 old == EntryOrDefault(requests, c.user)
                 new == requests'[c.user]
                 kept == IF c.limited THEN new ELSE SubSeq(new, 1, Len(new) - 1)
             IN  /\ kept = SelectSeq(old, LAMBDA time : c.t - time < window)
                 /\ c.limited => new = old /\ Len(old) = max_requests
                 /\ Len(old) = max_requests /\ c.t - old[1] >= window => ~ c.limited ]_vars
    /\ \A u \in LimiterUsers : (LimitedNow(u) /\ Recoverable(u)) ~> AllowedNow(u)

\* C19 witness: the user was Limited at instant 1 and, calling again when
\* the clock stood at 60 and the timestamps of instant 0 were 60 seconds
\* old, Allowed.
C19_Witness ==
    /\ Len(calls) = 2
    /\ calls[1].limited /\ calls[1].t = 1
    /\ ~ calls[2].limited /\ calls[2].t = window
    /\ requests["alice"][1] = 1
    /\ requests["alice"][Len(requests["alice"])] = window

\* C20: a call for one user leaves the vector of every other user as it
\* is, and a call is Limited only when 100 Allowed calls of its own user lie
\* in the 60 seconds before it: a user who has used up its window never
\* makes a call of another user Limited.
C20_WindowsIndependent ==
    /\ [][ Len(calls') = Len(calls) + 1 =>
             LET c == calls'[Len(calls')]
             IN  \A v \in (DOMAIN requests \cup DOMAIN requests') \ {c.user} :
                    /\ v \in DOMAIN requests /\ v \in DOMAIN requests'
                    /\ requests'[v] = requests[v] ]_vars
    /\ [](\A i \in 1..Len(calls) :
             calls[i].limited => Cardinality(AllowedInWindow(i)) >= max_requests)

\* C20 witness: alice was Limited and bob, calling after her at the same
\* instant, Allowed.
C20_Witness ==
    \E i \in 1..Len(calls), j \in 1..Len(calls) :
       /\ i < j /\ calls[i].t = calls[j].t
       /\ calls[i].user = "alice" /\ calls[i].limited
       /\ calls[j].user = "bob" /\ ~ calls[j].limited
       /\ Len(requests["alice"]) = max_requests /\ Len(requests["bob"]) = 1

\* The Allowed calls of user u that are less than window seconds old, and
\* the timestamps of that age in the user's vector.
RecentAllowed(u) ==
    {i \in 1..Len(calls) : /\ calls[i].user = u /\ ~ calls[i].limited
                           /\ now - calls[i].t < window}

RecentSlots(u) ==
    {k \in 1..Len(EntryOrDefault(requests, u)) : now - requests[u][k] < window}

\* The request of task r was admitted by the limiter and then ended with
\* an error or a backend fault.
AdmittedThenFailed(r) ==
    /\ Passed(r, "RateChecked") /\ pc[r] = "done"
    /\ resp[r].err # NoError

\* C21: an admitted request has used one slot whatever happens to it
\* afterwards: every Allowed call of the last 60 seconds has its timestamp
\* in the user's vector, also when its request was then refused by the
\* access checks or ended in BucketNotFound, ObjectNotFound or a backend
\* fault, and a request whose call follows 100 Allowed ones of the same
\* 60 seconds is Limited.
C21_AdmissionConsumesSlot ==
    /\ \A u \in DOMAIN config.users :
          Cardinality(RecentAllowed(u)) = Cardinality(RecentSlots(u))
    /\ \A r \in Reqs :
          Passed(r, "RateChecked") =>
             \E i \in 1..Len(calls) :
                /\ calls[i].req = r /\ calls[i].user = local[r].username
                /\ ~ calls[i].limited
                /\ now - calls[i].t < window => i \in RecentAllowed(local[r].username)
    /\ \A i \in 1..Len(calls) :
          /\ calls[i].req \in Reqs
          /\ Cardinality(AllowedInWindow(i)) >= max_requests
          => calls[i].limited

\* C21 witness: a Readonly user's put was admitted as the 100th request of
\* the window and refused write permission; the user's next request was
\* Limited.
C21_Witness ==
    \E a \in Reqs, b \in Reqs :
       /\ AdmittedThenFailed(a) /\ resp[a].err = WriteDenied
       /\ local[b].username = local[a].username
       /\ pc[b] = "done" /\ resp[b].err = RateLimitError
       /\ Cardinality(RecentSlots(local[a].username)) = max_requests

\* The 100th request of the window ended with the given error kind and the
\* user's next request was Limited.
SlotSpentOn(kind) ==
    \E a \in Reqs, b \in Reqs :
       /\ AdmittedThenFailed(a) /\ resp[a].err.kind = kind
       /\ local[b].username = local[a].username
       /\ pc[b] = "done" /\ resp[b].err = RateLimitError

C21_SpentOnBucketNotFound == SlotSpentOn("BucketNotFound")
C21_SpentOnObjectNotFound == SlotSpentOn("ObjectNotFound")
C21_SpentOnBackendFault == SlotSpentOn("GetObjectError")
C21_SpentOnBucketDenied ==
    \E a \in Reqs, b \in Reqs :
       /\ AdmittedThenFailed(a) /\ resp[a].err = BucketDenied("b2")
       /\ local[b].username = local[a].username
       /\ pc[b] = "done" /\ resp[b].err = RateLimitError

\* The server has started to accept requests.
Serving == MainTask \in DOMAIN pc /\ pc[MainTask] = "serving"

ClientNotFound == Err("InternalError", <<"S3 client not found">>)

\* C22: once main serves, the client table has exactly the keys of the
\* accounts table; no request is received before that, none is answered
\* with the InternalError "S3 client not found", and every resolution of a
\* bucket that some account claims gives a claiming account that has a
\* client, to which the backend call then goes.
C22_ClientForEveryAccount ==
    /\ Serving => clients = DOMAIN config.accounts
    /\ \A r \in Reqs :
          /\ pc[r] # "idle" => Serving
          /\ resp[r].err # ClientNotFound
          /\ Resolution(r) /\ Claimants(local[r].bucket) # {}
             => /\ Passed(r, "Routed")
                /\ local[r].account \in Claimants(local[r].bucket) \cap clients
    /\ \A i \in 1..Len(backend) :
          backend[i].account \in Claimants(backend[i].bucket) \cap clients

\* C22 witness: main built the clients of both accounts, and a request for
\* b2, which only acct2, the last in iteration order, claims, was resolved
\* to acct2 and reached the backend.
C22_Witness ==
    /\ Serving /\ clients = {"acct1", "acct2"}
    /\ config.account_order = <<"acct1", "acct2">>
    /\ Claimants("b2") = {"acct2"}
    /\ \E r \in Reqs :
          /\ Dispatched(r) /\ local[r].bucket = "b2" /\ local[r].account = "acct2"
          /\ pc[r] = "done"

====
